---- MODULE Spec2Model ----
(***************************************************************************)
(* Model of the two diagnostic scripts of the repository:                  *)
(*   check_ollama_config.py  (server / model health checker)               *)
(*   test_embedder.py        (embedder tester)                             *)
(* Python strings are sequences of one-character strings, Python values    *)
(* True / False / None are the strings "True" / "False" / "None", and an   *)
(* exception that leaves a function is the return tag "raise".             *)
(***************************************************************************)
EXTENDS Integers, Sequences, FiniteSets, TLC

VARIABLES pc, requests, output, exitStatus,
          server_ok, model_ok, inference_ok,
          alias, cfg, results, fileKind,
          fnInput, fnResult

vars == <<pc, requests, output, exitStatus, server_ok, model_ok, inference_ok,
          alias, cfg, results, fileKind, fnInput, fnResult>>

\* ---------------------------------------------------------------- bounds
MaxModels == 2
MaxPad == 1
MaxCase == 2
MaxEntries == 2
MaxData == 2
MaxVec == 6
MaxInfo == 2
RunMaxData == 1
RunMaxVec == 2
RunMaxInfo == 1

\* ------------------------------------------------------- string helpers
RECURSIVE SeqsUpTo(_, _)
SeqsUpTo(S, n) ==
    IF n = 0 THEN {<<>>}
    ELSE LET shorter == SeqsUpTo(S, n - 1)
         IN shorter \cup {Append(s, x) : s \in {t \in shorter : Len(t) = n - 1}, x \in S}

\* Python's  sub in s  for two strings
IsSubstring(sub, s) ==
    \E i \in 0..(Len(s) - Len(sub)) : SubSeq(s, i + 1, i + Len(sub)) = sub

\* Python's  s.endswith(suffix)
EndsWith(s, suffix) ==
    /\ Len(s) >= Len(suffix)
    /\ SubSeq(s, Len(s) - Len(suffix) + 1, Len(s)) = suffix

Msg(m) == [msg |-> m, code |-> 0, names |-> <<>>]
MsgCode(m, c) == [msg |-> m, code |-> c, names |-> <<>>]
MsgNames(m, ns) == [msg |-> m, code |-> 0, names |-> ns]

Ret(r, out) == [ret |-> r, out |-> out]

\* Python's  not v  for v among True, False and None, with the reading
\* "v is False" as the variant that lets None through
FalsyOnlyFalse(v) == v = "False"
Falsy(v) == v \in {"False", "None"}

Contains(seq, x) == \E i \in 1..Len(seq) : seq[i] = x
HasMsg(out, m) == \E i \in 1..Len(out) : out[i].msg = m

\* =====================================================================
\* check_ollama_config.py
\* =====================================================================
MODEL_NAME == <<"q", "w", "e", "n", "3", ":", "4", "b">>

Get(path) == [method |-> "GET", path |-> path]
Post(path) == [method |-> "POST", path |-> path]

\* ---- what the server can answer ------------------------------------
StatusCodes == {200, 500}
RequestExceptions == {"ConnectionError", "Timeout", "RequestException"}

\* model names a tag listing may hold: MODEL_NAME itself, MODEL_NAME inside a
\* longer name, and near misses (a prefix of it, one character changed, "")
PadChars == {"x"}
NameCores == {MODEL_NAME, SubSeq(MODEL_NAME, 1, 7),
              <<"q", "w", "e", "n", "3", ":", "8", "b">>, <<>>}
ModelNames == {p \o c \o s : p \in SeqsUpTo(PadChars, MaxPad), c \in NameCores,
                             s \in {<<>>, <<"x">>}}

\* one entry of the "models" list: a JSON object with or without "name", whose
\* name is a string or not, or a JSON value that is no object
Descriptor(shape, name, val) == [shape |-> shape, name |-> name, val |-> val]
Descriptors ==
    {Descriptor("dict", "str", n) : n \in ModelNames}
    \cup {Descriptor("dict", "absent", <<>>), Descriptor("dict", "nonstr", <<>>),
          Descriptor("nondict", "absent", <<>>)}

TagsBody(shape, models, list) == [shape |-> shape, models |-> models, list |-> list]
TagsBodiesOver(D, n) ==
    {TagsBody("dict", "list", l) : l \in SeqsUpTo(D, n)}
    \cup {TagsBody("dict", "absent", <<>>), TagsBody("dict", "null", <<>>),
          TagsBody("nondict", "absent", <<>>), TagsBody("not_json", "absent", <<>>)}

HttpResp(status, body) == [kind |-> "http", exc |-> "none", status |-> status, body |-> body]
ExcResp(e) ==
    [kind |-> "exc", exc |-> e, status |-> 0, body |-> TagsBody("not_json", "absent", <<>>)]

TagsResponsesOver(D, n) ==
    {HttpResp(s, b) : s \in StatusCodes, b \in TagsBodiesOver(D, n)}
    \cup {ExcResp(e) : e \in RequestExceptions}

\* ---- check_ollama_status --------------------------------------------
check_ollama_status(response) ==
    IF response.kind = "exc"
    THEN CASE response.exc = "ConnectionError" -> Ret("False", <<Msg("could_not_connect")>>)
           [] response.exc = "Timeout" -> Ret("False", <<Msg("connection_timed_out")>>)
           [] OTHER -> Ret("raise", <<>>)
    ELSE IF response.status = 200
         THEN Ret("True", <<Msg("server_running")>>)
         ELSE Ret("False", <<MsgCode("server_status_code", response.status)>>)

\* ---- check_model_available ------------------------------------------
\* [model.get("name", "") for model in models]: ok is FALSE when a model is no
\* object (AttributeError)
RECURSIVE model_names_of(_)
model_names_of(models) ==
    IF models = <<>> THEN [ok |-> TRUE, names |-> <<>>]
    ELSE IF Head(models).shape # "dict" THEN [ok |-> FALSE, names |-> <<>>]
    ELSE LET rest == model_names_of(Tail(models))
             name == IF Head(models).name = "absent"
                     THEN [str |-> TRUE, val |-> <<>>]
                     ELSE [str |-> Head(models).name = "str", val |-> Head(models).val]
         IN IF rest.ok THEN [ok |-> TRUE, names |-> <<name>> \o rest.names] ELSE rest

\* any(MODEL_NAME in name for name in model_names), left to right and lazy:
\* "raise" when a name that is no string is reached before a match
RECURSIVE any_name_matches(_)
any_name_matches(names) ==
    IF names = <<>> THEN "False"
    ELSE IF ~Head(names).str THEN "raise"
    ELSE IF IsSubstring(MODEL_NAME, Head(names).val) THEN "True"
    ELSE any_name_matches(Tail(names))

NameVals(names) == [i \in 1..Len(names) |-> names[i].val]

check_model_available(response) ==
    LET error == Ret("False", <<Msg("error_checking_model")>>)
    IN IF response.kind = "exc" THEN error
       ELSE IF response.status # 200 THEN Ret("None", <<>>)
       ELSE IF response.body.shape # "dict" THEN error
       ELSE IF response.body.models = "null" THEN error
       ELSE LET models == IF response.body.models = "absent" THEN <<>>
                          ELSE response.body.list
                listed == model_names_of(models)
                names == listed.names
            IN IF ~listed.ok THEN error
               ELSE LET found == any_name_matches(names)
                    IN CASE found = "raise" -> error
                         [] found = "True" -> Ret("True", <<Msg("model_available")>>)
                         [] OTHER ->
                              Ret("False", <<Msg("model_not_available"),
                                             MsgNames("available_models", NameVals(names)),
                                             Msg("run_ollama_pull")>>)

\* ---- print_model_info -----------------------------------------------
DetailFields == {"parameter_size", "quantization_level", "format", "family"}

ShowBody(shape, details, fields) == [shape |-> shape, details |-> details, fields |-> fields]
ShowBodies ==
    {ShowBody("dict", "dict", f) : f \in SUBSET DetailFields}
    \cup {ShowBody("dict", "absent", {}), ShowBody("dict", "nondict", {}),
          ShowBody("nondict", "absent", {}), ShowBody("not_json", "absent", {})}
ShowResponses ==
    {[kind |-> "http", exc |-> "none", status |-> s, body |-> b] :
        s \in StatusCodes, b \in ShowBodies}
    \cup {[kind |-> "exc", exc |-> e, status |-> 0, body |-> ShowBody("not_json", "absent", {})] :
        e \in RequestExceptions}

\* one printed line per detail field: code 1 when the value is there, 0 for 'N/A'
InfoLine(body, f) == MsgCode(f, IF f \in body.fields THEN 1 ELSE 0)

\* the variant without the try/except around the request and the parsing
print_model_info_uncaught(response) ==
    IF response.kind = "exc" \/ (response.status = 200 /\ response.body.shape = "not_json")
    THEN Ret("raise", <<>>)
    ELSE IF response.status # 200
         THEN Ret("None", <<MsgCode("warn_could_not_retrieve_info", response.status)>>)
    ELSE IF response.body.shape # "dict" \/ response.body.details = "nondict"
         THEN Ret("raise", <<Msg("model_information")>>)
    ELSE Ret("None", <<Msg("model_information"),
                       InfoLine(response.body, "parameter_size"),
                       InfoLine(response.body, "quantization_level"),
                       InfoLine(response.body, "format"),
                       InfoLine(response.body, "family")>>)

print_model_info(response) ==
    LET warn == Msg("warn_error_retrieving_info")
    IN IF response.kind = "exc" THEN Ret("None", <<warn>>)
       ELSE IF response.status # 200
            THEN Ret("None", <<MsgCode("warn_could_not_retrieve_info", response.status)>>)
       ELSE IF response.body.shape = "not_json" THEN Ret("None", <<warn>>)
       ELSE IF response.body.shape # "dict" \/ response.body.details = "nondict"
            THEN Ret("None", <<Msg("model_information"), warn>>)
       ELSE Ret("None", <<Msg("model_information"),
                          InfoLine(response.body, "parameter_size"),
                          InfoLine(response.body, "quantization_level"),
                          InfoLine(response.body, "format"),
                          InfoLine(response.body, "family")>>)

\* ---- test_model_inference -------------------------------------------
GenBody(shape, resp) == [shape |-> shape, response |-> resp]
GenBodies == {GenBody("dict", r) : r \in {"absent", "str", "nonstr"}}
             \cup {GenBody("nondict", "absent"), GenBody("not_json", "absent")}
GenResponses ==
    {[kind |-> "http", exc |-> "none", status |-> s, body |-> b] :
        s \in StatusCodes, b \in GenBodies}
    \cup {[kind |-> "exc", exc |-> e, status |-> 0, body |-> GenBody("not_json", "absent")] :
        e \in RequestExceptions}

test_model_inference(response) ==
    LET testing == Msg("testing_inference")
        error == Ret("False", <<testing, Msg("error_during_inference")>>)
    IN IF response.kind = "exc"
       THEN IF response.exc = "Timeout"
            THEN Ret("False", <<testing, Msg("inference_timed_out")>>)
            ELSE error
       ELSE IF response.status # 200
            THEN Ret("False", <<testing, MsgCode("inference_status_code", response.status)>>)
       ELSE IF response.body.shape # "dict" \/ response.body.response = "nonstr" THEN error
       ELSE Ret("True", <<testing, Msg("model_response")>>)

\* ---- main ------------------------------------------------------------
\* lines 94-103: the banner, the liveness check and its early return
main_status ==
    /\ pc = "hc_status"
    /\ \E response \in TagsResponsesOver(Descriptors, MaxModels) :
         LET r == check_ollama_status(response)
         IN /\ requests' = Append(requests, Get("/api/tags"))
            /\ IF r.ret = "raise"
               THEN /\ output' = output \o <<Msg("banner")>> \o r.out \o <<Msg("traceback")>>
                    /\ exitStatus' = 1
                    /\ pc' = "done"
                    /\ UNCHANGED server_ok
               ELSE /\ server_ok' = r.ret
                    /\ IF Falsy(r.ret)
                       THEN /\ output' = output \o <<Msg("banner")>> \o r.out
                                           \o <<Msg("failed_server_not_reachable")>>
                            /\ exitStatus' = 0
                            /\ pc' = "done"
                       ELSE /\ output' = output \o <<Msg("banner")>> \o r.out
                            /\ pc' = "hc_available"
                            /\ UNCHANGED exitStatus
    /\ UNCHANGED <<model_ok, inference_ok, alias, cfg, results, fileKind, fnInput, fnResult>>

\* lines 105-108: the availability check and its early return
main_available ==
    /\ pc = "hc_available"
    /\ \E response \in TagsResponsesOver(Descriptors, MaxModels) :
         LET r == check_model_available(response)
         IN /\ requests' = Append(requests, Get("/api/tags"))
            /\ model_ok' = r.ret
            /\ IF Falsy(r.ret)
               THEN /\ output' = output \o r.out \o <<Msg("failed_model_not_available")>>
                    /\ exitStatus' = 0
                    /\ pc' = "done"
               ELSE /\ output' = output \o r.out
                    /\ pc' = "hc_info"
                    /\ UNCHANGED exitStatus
    /\ UNCHANGED <<server_ok, inference_ok, alias, cfg, results, fileKind, fnInput, fnResult>>

\* line 110
main_info ==
    /\ pc = "hc_info"
    /\ \E response \in ShowResponses :
         LET r == print_model_info(response)
         IN /\ requests' = Append(requests, Post("/api/show"))
            /\ IF r.ret = "raise"
               THEN /\ output' = output \o r.out \o <<Msg("traceback")>>
                    /\ exitStatus' = 1
                    /\ pc' = "done"
               ELSE /\ output' = output \o r.out
                    /\ pc' = "hc_inference"
                    /\ UNCHANGED exitStatus
    /\ UNCHANGED <<server_ok, model_ok, inference_ok, alias, cfg, results, fileKind,
                   fnInput, fnResult>>

\* lines 111-118: the inference check and the verdict; main returns, status 0
main_inference ==
    /\ pc = "hc_inference"
    /\ \E response \in GenResponses :
         LET r == test_model_inference(response)
             last_line == IF server_ok = "True" /\ model_ok = "True" /\ r.ret = "True"
                        THEN Msg("all_checks_passed")
                        ELSE Msg("some_checks_failed")
         IN /\ requests' = Append(requests, Post("/api/generate"))
            /\ inference_ok' = r.ret
            /\ output' = output \o r.out \o <<last_line>>
            /\ exitStatus' = 0
            /\ pc' = "done"
    /\ UNCHANGED <<server_ok, model_ok, alias, cfg, results, fileKind, fnInput, fnResult>>

NoCfg == [model |-> "", base_url |-> <<>>, api_key |-> "absent", key |-> <<>>]

InitChecker ==
    /\ pc = "hc_status"
    /\ requests = <<>>
    /\ output = <<>>
    /\ exitStatus = -1
    /\ server_ok = "unset"
    /\ model_ok = "unset"
    /\ inference_ok = "unset"
    /\ alias = ""
    /\ cfg = NoCfg
    /\ results = <<>>
    /\ fileKind = "unread"
    /\ fnInput = <<>>
    /\ fnResult = <<>>

NextChecker == main_status \/ main_available \/ main_info \/ main_inference

SpecChecker == InitChecker /\ [][NextChecker]_vars

\* ---- properties of the health checker's run --------------------------
AllThreeOk == server_ok = "True" /\ model_ok = "True" /\ inference_ok = "True"
LivenessFailureMsgs == {"could_not_connect", "connection_timed_out", "server_status_code"}
MetadataWarnings == {"warn_error_retrieving_info", "warn_could_not_retrieve_info"}

\* C1: a finished run of the health checker has exit status 0 exactly when the
\* liveness, availability and inference checks all passed, and status 1 when
\* one of them failed.
C1_ExitStatusReflectsChecks ==
    pc = "done" => /\ exitStatus \in {0, 1}
                   /\ (exitStatus = 0 <=> AllThreeOk)

\* C5: once the liveness check has returned failure, it has been reported and
\* the liveness request is the only request of the run; once the availability
\* check has failed, no metadata and no inference request is in the run.
C5_FailedGateStopsRun ==
    /\ server_ok = "False" =>
          /\ requests = <<Get("/api/tags")>>
          /\ \E i \in 1..Len(output) : output[i].msg \in LivenessFailureMsgs
          /\ HasMsg(output, "failed_server_not_reachable")
    /\ model_ok \in {"False", "None"} =>
          /\ requests = <<Get("/api/tags"), Get("/api/tags")>>
          /\ HasMsg(output, "failed_model_not_available")

C5_Witness ==
    /\ pc = "done"
    /\ server_ok = "True"
    /\ model_ok = "None"
    /\ Len(requests) = 2

\* C6: whatever the metadata request answered, the inference request follows
\* it, a metadata failure leaves only a warning, and the verdict printed last is
\* "all passed" exactly when liveness, availability and inference passed.
C6_VerdictIgnoresMetadata ==
    (pc = "done" /\ Contains(requests, Post("/api/show"))) =>
        /\ requests = <<Get("/api/tags"), Get("/api/tags"),
                        Post("/api/show"), Post("/api/generate")>>
        /\ inference_ok \in {"True", "False"}
        /\ ~HasMsg(output, "traceback")
        /\ output[Len(output)].msg =
              IF AllThreeOk THEN "all_checks_passed" ELSE "some_checks_failed"

C6_Witness ==
    /\ pc = "done"
    /\ \E i \in 1..Len(output) : output[i].msg \in MetadataWarnings
    /\ output[Len(output)].msg = "all_checks_passed"

\* ---- check_model_available on its own --------------------------------
InitAvailability ==
    /\ pc = "fn_call"
    /\ fnInput \in TagsResponsesOver(Descriptors, MaxModels)
    /\ fnResult = Ret("unset", <<>>)
    /\ requests = <<>>
    /\ output = <<>>
    /\ exitStatus = -1
    /\ server_ok = "unset"
    /\ model_ok = "unset"
    /\ inference_ok = "unset"
    /\ alias = ""
    /\ cfg = NoCfg
    /\ results = <<>>
    /\ fileKind = "unread"

call_check_model_available ==
    /\ pc = "fn_call"
    /\ fnResult' = check_model_available(fnInput)
    /\ pc' = "fn_done"
    /\ UNCHANGED <<requests, output, exitStatus, server_ok, model_ok, inference_ok,
                   alias, cfg, results, fileKind, fnInput>>

NextAvailability == call_check_model_available

SpecAvailability == InitAvailability /\ [][NextAvailability]_vars

\* the tag listing is an object whose "models" is a list of objects with
\* string names (or has no "models")
WellFormedTags(r) ==
    /\ r.kind = "http"
    /\ r.body.shape = "dict"
    /\ r.body.models \in {"list", "absent"}
    /\ \A i \in 1..Len(r.body.list) :
          r.body.list[i].shape = "dict" /\ r.body.list[i].name \in {"str", "absent"}

SomeNameContainsModel(r) ==
    /\ r.kind = "http"
    /\ r.body.shape = "dict"
    /\ r.body.models = "list"
    /\ \E i \in 1..Len(r.body.list) :
          /\ r.body.list[i].shape = "dict"
          /\ r.body.list[i].name = "str"
          /\ IsSubstring(MODEL_NAME, r.body.list[i].val)

ListedNames(r) ==
    [i \in 1..Len(r.body.list) |->
        IF r.body.list[i].name = "str" THEN r.body.list[i].val ELSE <<>>]

\* C9: the availability check returns True only for a status-200 listing with a
\* name containing MODEL_NAME, returns True for every well-formed such listing,
\* returns False in every other case, and for a well-formed listing without a
\* matching name prints the names it holds.
C9_AvailabilityResult ==
    pc = "fn_done" =>
        /\ fnResult.ret = "True" => (fnInput.status = 200 /\ SomeNameContainsModel(fnInput))
        /\ (fnInput.status = 200 /\ WellFormedTags(fnInput) /\ SomeNameContainsModel(fnInput))
              => fnResult.ret = "True"
        /\ fnResult.ret # "True" => fnResult.ret = "False"
        /\ (fnInput.status = 200 /\ WellFormedTags(fnInput) /\ ~SomeNameContainsModel(fnInput))
              => Contains(fnResult.out, MsgNames("available_models", ListedNames(fnInput)))

\* =====================================================================
\* test_embedder.py
\* =====================================================================
\* ---- str.lower() ------------------------------------------------------
Uppers == <<"A", "B", "C", "D", "E", "F", "G", "H", "I", "J", "K", "L", "M",
            "N", "O", "P", "Q", "R", "S", "T", "U", "V", "W", "X", "Y", "Z">>
Lowers == <<"a", "b", "c", "d", "e", "f", "g", "h", "i", "j", "k", "l", "m",
            "n", "o", "p", "q", "r", "s", "t", "u", "v", "w", "x", "y", "z">>

LowerChar(c) ==
    IF \E i \in 1..26 : Uppers[i] = c
    THEN Lowers[CHOOSE i \in 1..26 : Uppers[i] = c]
    ELSE c
UpperChar(c) ==
    IF \E i \in 1..26 : Lowers[i] = c
    THEN Uppers[CHOOSE i \in 1..26 : Lowers[i] = c]
    ELSE c

Lower(s) == [i \in 1..Len(s) |-> LowerChar(s[i])]

\* ---- _headers ---------------------------------------------------------
S_none == <<"n", "o", "n", "e">>
S_ollama == <<"o", "l", "l", "a", "m", "a">>
S_no_key_required ==
    <<"n", "o", "_", "k", "e", "y", "_", "r", "e", "q", "u", "i", "r", "e", "d">>
PLACEHOLDER_KEYS == {<<>>, S_none, S_ollama, S_no_key_required}
BEARER == <<"B", "e", "a", "r", "e", "r", " ">>

\* cfg.get("api_key", ""): the default for a missing key, None for a JSON null
api_key_of(c) == IF c.api_key = "str" THEN c.key ELSE <<>>

Headers(auth, value) ==
    [content_type |-> "application/json", has_authorization |-> auth,
     authorization |-> value]

\* the variant that sends the lower-cased key
headers_lowered(c) ==
    LET api_key == api_key_of(c)
    IN IF c.api_key = "str" /\ api_key # <<>> /\ Lower(api_key) \notin PLACEHOLDER_KEYS
       THEN Headers(TRUE, BEARER \o Lower(api_key))
       ELSE Headers(FALSE, <<>>)

_headers(c) ==
    LET api_key == api_key_of(c)
    IN IF c.api_key = "str" /\ api_key # <<>> /\ Lower(api_key) \notin PLACEHOLDER_KEYS
       THEN Headers(TRUE, BEARER \o api_key)
       ELSE Headers(FALSE, <<>>)

\* ---- configuration entries --------------------------------------------
\* base_url: the host as one token, then "/" characters
HOST == "http://localhost:11434"
BaseUrls == {<<HOST>>, <<HOST, "/">>, <<HOST, "/", "/">>}

\* Python's  s.rstrip("/")
RECURSIVE RStripSlash(_)
RStripSlash(s) ==
    IF s # <<>> /\ s[Len(s)] = "/" THEN RStripSlash(SubSeq(s, 1, Len(s) - 1)) ELSE s

\* api keys: the placeholders, real keys and near misses, with the first MaxCase
\* characters in either case
KeyBases == PLACEHOLDER_KEYS
            \cup {<<"s", "k", "-", "1">>, S_none \o <<"x">>, <<"x">> \o S_ollama,
                  SubSeq(S_none, 1, 3), SubSeq(S_no_key_required, 1, 6)}
WithCase(s, up) == [i \in 1..Len(s) |-> IF i \in up THEN UpperChar(s[i]) ELSE s[i]]
ApiKeys == {WithCase(b, up) : b \in KeyBases, up \in SUBSET (1..MaxCase)}
           \cup {[i \in 1..Len(b) |-> UpperChar(b[i])] : b \in KeyBases}

Cfg(model, base_url, api_key, key) ==
    [model |-> model, base_url |-> base_url, api_key |-> api_key, key |-> key]
ModelFields == {"absent", "", "nomic-embed-text"}
CfgsOver(keys) ==
    {Cfg(m, b, "str", k) : m \in ModelFields, b \in BaseUrls, k \in keys}
    \cup {Cfg(m, b, a, <<>>) : m \in ModelFields, b \in BaseUrls, a \in {"absent", "null"}}

\* ---- _headers on its own ----------------------------------------------
InitHeaders ==
    /\ pc = "fn_call"
    /\ fnInput \in CfgsOver(ApiKeys)
    /\ fnResult = Headers(FALSE, <<>>)
    /\ requests = <<>>
    /\ output = <<>>
    /\ exitStatus = -1
    /\ server_ok = "unset"
    /\ model_ok = "unset"
    /\ inference_ok = "unset"
    /\ alias = ""
    /\ cfg = NoCfg
    /\ results = <<>>
    /\ fileKind = "unread"

call_headers ==
    /\ pc = "fn_call"
    /\ fnResult' = _headers(fnInput)
    /\ pc' = "fn_done"
    /\ UNCHANGED <<requests, output, exitStatus, server_ok, model_ok, inference_ok,
                   alias, cfg, results, fileKind, fnInput>>

NextHeaders == call_headers

SpecHeaders == InitHeaders /\ [][NextHeaders]_vars

\* api_key, compared case-insensitively, is one of "none", "ollama",
\* "no_key_required": some placeholder has its length and, character by
\* character, the same letter in either case
SameLetter(a, b) == a = b \/ UpperChar(a) = b \/ a = UpperChar(b)
IsPlaceholder(k) ==
    \E p \in {S_none, S_ollama, S_no_key_required} :
        /\ Len(p) = Len(k)
        /\ \A i \in 1..Len(p) : SameLetter(p[i], k[i])

\* C10: the headers hold Authorization exactly when api_key is present,
\* non-empty and no placeholder in any letter case, and its value is then
\* "Bearer " followed by api_key as configured.
C10_AuthorizationHeader ==
    pc = "fn_done" =>
        /\ fnResult.has_authorization <=>
              (fnInput.api_key = "str" /\ fnInput.key # <<>> /\ ~IsPlaceholder(fnInput.key))
        /\ fnResult.has_authorization => fnResult.authorization = BEARER \o fnInput.key
        /\ fnResult.content_type = "application/json"

C10_Witness ==
    /\ pc = "fn_done"
    /\ fnInput.api_key = "str"
    /\ fnInput.key # Lower(fnInput.key)
    /\ fnResult.has_authorization
    /\ fnResult.authorization = BEARER \o fnInput.key

\* ---- what the embedder's server can answer ----------------------------
HttpxExceptions == {"ConnectError", "TimeoutException", "ReadError"}
EmbedderStatusCodes == {200, 404}

\* one element of data: a JSON object with or without "embedding", which is a
\* list of numbers and strings or no list, or a JSON value that is no object
Item(shape, emb, vec) == [shape |-> shape, emb |-> emb, vec |-> vec]
ItemsOver(nVec) ==
    {Item("dict", "list", v) : v \in SeqsUpTo({"num", "str"}, nVec)}
    \cup {Item("dict", "absent", <<>>), Item("dict", "nonlist", <<>>),
          Item("nondict", "absent", <<>>)}

EmbBody(shape, data, list) == [shape |-> shape, data |-> data, list |-> list]
EmbBodiesOver(nData, nVec) ==
    {EmbBody("dict", "list", l) : l \in SeqsUpTo(ItemsOver(nVec), nData)}
    \cup {EmbBody("dict", "absent", <<>>), EmbBody("dict", "nonlist", <<>>),
          EmbBody("nondict", "absent", <<>>), EmbBody("not_json", "absent", <<>>)}
EmbResponsesOver(nData, nVec) ==
    {[kind |-> "http", exc |-> "none", status |-> st, body |-> b] :
        st \in EmbedderStatusCodes, b \in EmbBodiesOver(nData, nVec)}
    \cup {[kind |-> "exc", exc |-> e, status |-> 0, body |-> EmbBody("not_json", "absent", <<>>)] :
        e \in HttpxExceptions}

\* ---- test_connection --------------------------------------------------
ConnResponses ==
    {[kind |-> "http", exc |-> "none", status |-> st] : st \in EmbedderStatusCodes}
    \cup {[kind |-> "exc", exc |-> e, status |-> 0] : e \in HttpxExceptions}

test_connection(response) ==
    IF response.kind = "http"
    THEN Ret("True", <<Msg("test_1_connection"), MsgCode("http_received", response.status),
                       Msg("PASS")>>)
    ELSE Ret("False", <<Msg("test_1_connection"),
                        Msg(CASE response.exc = "ConnectError" -> "connect_error"
                              [] response.exc = "TimeoutException" -> "timeout_exception"
                              [] OTHER -> "unexpected_error"),
                        Msg("FAIL")>>)

\* ---- test_embedding ---------------------------------------------------
SpotCheck == 5

Min(a, b) == IF a < b THEN a ELSE b

\* isinstance(v, (int, float)) for every v of embedding[:5]
FirstValuesNumeric(embedding) ==
    \A i \in 1..Min(SpotCheck, Len(embedding)) : embedding[i] = "num"

test_embedding(response) ==
    LET head == <<Msg("test_2_embedding")>>
        fail(m) == Ret("False", head \o <<m, Msg("FAIL")>>)
    IN IF response.kind = "exc"
       THEN IF response.exc \in {"ConnectError", "TimeoutException"}
            THEN fail(Msg("request_failed"))
            ELSE Ret("raise", head \o <<Msg("Traceback ReadError")>>)
       ELSE IF response.status \notin 200..299
            THEN fail(MsgCode("http_error", response.status))
       ELSE IF response.body.shape = "not_json" THEN fail(Msg("failed_to_parse_json"))
       ELSE IF response.body.shape # "dict"
            THEN Ret("raise", head \o <<Msg("Traceback AttributeError")>>)
       ELSE IF response.body.data # "list" \/ Len(response.body.list) = 0
            THEN fail(Msg("unexpected_response_shape"))
       ELSE LET first == response.body.list[1]
            IN IF first.shape # "dict"
               THEN Ret("raise", head \o <<Msg("Traceback AttributeError")>>)
               ELSE IF first.emb # "list" \/ Len(first.vec) = 0
                    THEN fail(Msg("embedding_missing_or_empty"))
               ELSE IF ~FirstValuesNumeric(first.vec)
                    THEN fail(Msg("first_values_not_numeric"))
               ELSE Ret("True", head \o <<MsgCode("embedding_dimension", Len(first.vec)),
                                         MsgCode("first_values", Min(SpotCheck, Len(first.vec))),
                                         Msg("PASS")>>)

\* ---- test_context_window ----------------------------------------------
CONTEXT_LENGTH_SUFFIX ==
    <<".", "c", "o", "n", "t", "e", "x", "t", "_", "l", "e", "n", "g", "t", "h">>

\* keys of modelinfo: the suffix with and without an architecture prefix, and
\* near misses (no dot, one character more, one less, another field)
KeyTails == {CONTEXT_LENGTH_SUFFIX, Tail(CONTEXT_LENGTH_SUFFIX),
             CONTEXT_LENGTH_SUFFIX \o <<"s">>, SubSeq(CONTEXT_LENGTH_SUFFIX, 1, 14),
             <<".", "b", "l", "o", "c", "k", "_", "c", "o", "u", "n", "t">>}
InfoKeys == {p \o t : p \in SeqsUpTo({"l"}, MaxPad), t \in KeyTails}

\* a value of modelinfo: an integer, a string or null
InfoValue(kind, val) == [kind |-> kind, val |-> val]
InfoValues == {InfoValue("int", 8192), InfoValue("int", 512),
               InfoValue("str", 0), InfoValue("null", 0)}

\* a JSON object as the sequence of its entries, in the order of the text
Entry(key, value) == [key |-> key, value |-> value]
DistinctKeys(entries) ==
    \A i, j \in 1..Len(entries) : entries[i].key = entries[j].key => i = j
InfoMapsOver(keys, n) ==
    {m \in SeqsUpTo({Entry(k, v) : k \in keys, v \in InfoValues}, n) : DistinctKeys(m)}

ShowPayload(shape, modelinfo, entries) ==
    [shape |-> shape, modelinfo |-> modelinfo, entries |-> entries]
CtxBodiesOver(keys, n) ==
    {ShowPayload("dict", "dict", m) : m \in InfoMapsOver(keys, n)}
    \cup {ShowPayload("dict", "absent", <<>>), ShowPayload("dict", "null", <<>>),
          ShowPayload("dict", "number", <<>>),
          ShowPayload("nondict", "absent", <<>>), ShowPayload("not_json", "absent", <<>>)}
CtxResponsesOver(keys, n) ==
    {[kind |-> "http", exc |-> "none", status |-> st, body |-> b] :
        st \in EmbedderStatusCodes, b \in CtxBodiesOver(keys, n)}
    \cup {[kind |-> "exc", exc |-> e, status |-> 0,
           body |-> ShowPayload("not_json", "absent", <<>>)] : e \in HttpxExceptions}

\* next((k for k in modelinfo if k.endswith(".context_length")), None) as the
\* index of the entry, 0 for None
ctx_key_index(entries) ==
    IF \E i \in 1..Len(entries) : EndsWith(entries[i].key, CONTEXT_LENGTH_SUFFIX)
    THEN CHOOSE i \in 1..Len(entries) :
            /\ EndsWith(entries[i].key, CONTEXT_LENGTH_SUFFIX)
            /\ \A j \in 1..(i - 1) : ~EndsWith(entries[j].key, CONTEXT_LENGTH_SUFFIX)
    ELSE 0

test_context_window(response) ==
    LET head == <<Msg("test_3_context_window")>>
        fail(ms) == Ret("False", head \o ms \o <<Msg("FAIL")>>)
    IN IF response.kind = "exc"
       THEN IF response.exc \in {"ConnectError", "TimeoutException"}
            THEN fail(<<Msg("request_failed")>>)
            ELSE Ret("raise", head \o <<Msg("Traceback ReadError")>>)
       ELSE IF response.status \notin 200..299
            THEN fail(<<MsgCode("http_error", response.status), Msg("endpoint_may_not_exist")>>)
       ELSE IF response.body.shape = "not_json" THEN fail(<<Msg("failed_to_parse_json")>>)
       ELSE IF response.body.shape # "dict"
            THEN Ret("raise", head \o <<Msg("Traceback AttributeError")>>)
       ELSE IF response.body.modelinfo \in {"absent", "null"}
               \/ (response.body.modelinfo = "dict" /\ response.body.entries = <<>>)
            THEN fail(<<Msg("no_modelinfo")>>)
       ELSE IF response.body.modelinfo # "dict"
            THEN Ret("raise", head \o <<Msg("Traceback TypeError")>>)
       ELSE LET entries == response.body.entries
                i == ctx_key_index(entries)
            IN IF i = 0
               THEN fail(<<Msg("no_context_length_key"),
                           MsgNames("available_keys",
                                    [j \in 1..Len(entries) |-> entries[j].key])>>)
               ELSE IF entries[i].value.kind # "int"
                    THEN Ret("raise", head \o <<MsgNames("context_length_key", <<entries[i].key>>),
                                              Msg(IF entries[i].value.kind = "str"
                                                  THEN "Traceback ValueError"
                                                  ELSE "Traceback TypeError")>>)
               ELSE Ret("True", head \o <<MsgNames("context_length_key", <<entries[i].key>>),
                                         MsgCode("max_context_window", entries[i].value.val),
                                         Msg("PASS")>>)

\* ---- _load_embedder_cfg -----------------------------------------------
Aliases == {"embed", "chat", "judge"}
\* the entries the runs load: with and without "model", a trailing "/" on
\* base_url, and api_key absent, a placeholder ("None") and a real key
RunCfgs == {Cfg("nomic-embed-text", <<HOST>>, "absent", <<>>),
            Cfg("absent", <<HOST, "/">>, "str", WithCase(S_none, {1})),
            Cfg("nomic-embed-text", <<HOST, "/">>, "str", <<"s", "k", "-", "1">>),
            Cfg("absent", <<HOST>>, "str", <<"s", "k", "-", "1">>)}

\* one entry of the file's mapping: alias -> object (with its "kind") or a
\* JSON value that is no object
FileEntry(a, shape, role, c) == [alias |-> a, shape |-> shape, role |-> role, cfg |-> c]
FileEntries ==
    {FileEntry(a, "dict", "embedder", c) : a \in Aliases, c \in RunCfgs}
    \cup {FileEntry(a, "dict", r, Cfg("llama3", <<HOST>>, "absent", <<>>)) :
            a \in Aliases, r \in {"llm", "absent"}}
    \cup {FileEntry(a, "nondict", "absent", NoCfg) : a \in Aliases}

\* the mappings of at most n entries: a JSON object has each alias once
RECURSIVE MappingsOfLen(_)
MappingsOfLen(n) ==
    IF n = 0 THEN {<<>>}
    ELSE UNION {{Append(m, e) : e \in {x \in FileEntries :
                                         \A i \in 1..(n - 1) : m[i].alias # x.alias}} :
                m \in MappingsOfLen(n - 1)}
MappingsUpTo(n) == UNION {MappingsOfLen(k) : k \in 0..n}

ConfigFile(kind, entries) == [kind |-> kind, entries |-> entries]
ConfigFiles ==
    {ConfigFile("mapping", es) : es \in MappingsUpTo(MaxEntries)}
    \cup {ConfigFile(k, <<>>) : k \in {"missing", "unparsable", "undecodable", "not_mapping"}}

\* cfg.get("kind") == "embedder", and the variant that takes every entry
is_embedder_any(entry) == entry.shape = "dict"
is_embedder(entry) == entry.role = "embedder"

Loaded(r, a, c, out) == [ret |-> r, alias |-> a, cfg |-> c, out |-> out]

\* for alias, cfg in models.items(): the first embedder, or the entry that is no
\* object when the loop meets one before
RECURSIVE first_embedder(_)
first_embedder(entries) ==
    IF entries = <<>>
    THEN Loaded("exit", "", NoCfg, <<Msg("ERROR no embedder")>>)
    ELSE IF Head(entries).shape # "dict"
    THEN Loaded("raise", "", NoCfg, <<Msg("Traceback AttributeError")>>)
    ELSE IF is_embedder(Head(entries))
    THEN Loaded("ok", Head(entries).alias, Head(entries).cfg, <<>>)
    ELSE first_embedder(Tail(entries))

_load_embedder_cfg(file) ==
    CASE file.kind = "missing" -> Loaded("exit", "", NoCfg, <<Msg("ERROR not found")>>)
      [] file.kind = "unparsable" -> Loaded("exit", "", NoCfg, <<Msg("ERROR failed to parse")>>)
      [] file.kind = "undecodable" ->
            Loaded("raise", "", NoCfg, <<Msg("Traceback UnicodeDecodeError")>>)
      [] file.kind = "not_mapping" ->
            Loaded("raise", "", NoCfg, <<Msg("Traceback AttributeError")>>)
      [] OTHER -> first_embedder(file.entries)

\* what the file is, read off the file and not off the loader
FileKindOf(file) ==
    IF file.kind # "mapping" THEN file.kind
    ELSE IF \E i \in 1..Len(file.entries) :
               file.entries[i].shape = "dict" /\ file.entries[i].role = "embedder"
         THEN "has_embedder"
         ELSE "no_embedder"

\* ---- main -------------------------------------------------------------
RunInfoKeys == {<<"l">> \o CONTEXT_LENGTH_SUFFIX, <<"l">> \o Tail(CONTEXT_LENGTH_SUFFIX)}

NoHeaders == [content_type |-> "", has_authorization |-> FALSE, authorization |-> <<>>]
Request(method, url, hdrs, model) ==
    [method |-> method, url |-> url, headers |-> hdrs, model |-> model]

\* cfg.get("model") or alias
model_name(a, c) == IF c.model \in {"absent", ""} THEN a ELSE c.model

Passed(rs) == Cardinality({i \in 1..Len(rs) : rs[i] = "True"})

\* lines 235-239
tester_load ==
    /\ pc = "et_load"
    /\ \E file \in ConfigFiles :
         LET r == _load_embedder_cfg(file)
         IN /\ fileKind' = FileKindOf(file)
            /\ IF r.ret = "ok"
               THEN /\ alias' = r.alias
                    /\ cfg' = r.cfg
                    /\ output' = output \o <<Msg("embedder_alias")>>
                    /\ pc' = "et_connection"
                    /\ UNCHANGED exitStatus
               ELSE /\ output' = output \o r.out
                    /\ exitStatus' = 1
                    /\ pc' = "done"
                    /\ UNCHANGED <<alias, cfg>>
    /\ UNCHANGED <<requests, results, server_ok, model_ok, inference_ok, fnInput, fnResult>>

\* a check of main: its request, then its result appended or its exception
\* leaving main
RunCheck(request, r, nextPc) ==
    /\ requests' = Append(requests, request)
    /\ output' = output \o r.out
    /\ IF r.ret = "raise"
       THEN /\ exitStatus' = 1
            /\ pc' = "done"
            /\ UNCHANGED results
       ELSE /\ results' = Append(results, r.ret)
            /\ pc' = nextPc
            /\ UNCHANGED exitStatus

\* line 242
tester_connection ==
    /\ pc = "et_connection"
    /\ \E response \in ConnResponses :
         RunCheck(Request("GET", RStripSlash(cfg.base_url), NoHeaders, ""),
                  test_connection(response), "et_embedding")
    /\ UNCHANGED <<alias, cfg, fileKind, server_ok, model_ok, inference_ok, fnInput, fnResult>>

\* line 243
tester_embedding ==
    /\ pc = "et_embedding"
    /\ \E response \in EmbResponsesOver(RunMaxData, RunMaxVec) :
         RunCheck(Request("POST", RStripSlash(cfg.base_url) \o <<"/v1/embeddings">>,
                          _headers(cfg), model_name(alias, cfg)),
                  test_embedding(response), "et_context_window")
    /\ UNCHANGED <<alias, cfg, fileKind, server_ok, model_ok, inference_ok, fnInput, fnResult>>

\* lines 244-251: the third check, the count and the exit status
tester_context_window ==
    /\ pc = "et_context_window"
    /\ \E response \in CtxResponsesOver(RunInfoKeys, RunMaxInfo) :
         LET r == test_context_window(response)
             all == Append(results, r.ret)
         IN /\ requests' = Append(requests,
                                  Request("POST", RStripSlash(cfg.base_url) \o <<"/api/show">>,
                                          NoHeaders, model_name(alias, cfg)))
            /\ pc' = "done"
            /\ IF r.ret = "raise"
               THEN /\ output' = output \o r.out
                    /\ exitStatus' = 1
                    /\ UNCHANGED results
               ELSE /\ results' = all
                    /\ output' = output \o r.out \o <<MsgCode("results_passed", Passed(all))>>
                    /\ exitStatus' = IF Passed(all) < Len(all) THEN 1 ELSE 0
    /\ UNCHANGED <<alias, cfg, fileKind, server_ok, model_ok, inference_ok, fnInput, fnResult>>

InitTester ==
    /\ pc = "et_load"
    /\ requests = <<>>
    /\ output = <<>>
    /\ exitStatus = -1
    /\ server_ok = "unset"
    /\ model_ok = "unset"
    /\ inference_ok = "unset"
    /\ alias = ""
    /\ cfg = NoCfg
    /\ results = <<>>
    /\ fileKind = "unread"
    /\ fnInput = <<>>
    /\ fnResult = <<>>

NextTester == tester_load \/ tester_connection \/ tester_embedding \/ tester_context_window

SpecTester == InitTester /\ [][NextTester]_vars

\* ---- properties of the tester's run -----------------------------------
EntryLoaded == HasMsg(output, "embedder_alias")

\* C2: a finished run with a loaded entry has a non-zero exit status exactly
\* when one of the three checks returned False; three True results give exit
\* status 0 and the count 3.
C2_ExitStatusIffCheckFailed ==
    (pc = "done" /\ EntryLoaded) =>
        /\ exitStatus # 0 <=> Contains(results, "False")
        /\ results = <<"True", "True", "True">> =>
              /\ exitStatus = 0
              /\ Contains(output, MsgCode("results_passed", 3))

\* C3: a run whose configuration file is missing, unparsable or without an
\* entry of kind "embedder" is over with exit status 1 and has issued no request.
C3_BadConfigExitsBeforeRequests ==
    fileKind \in {"missing", "unparsable", "undecodable", "not_mapping", "no_embedder"} =>
        /\ pc = "done"
        /\ exitStatus = 1
        /\ requests = <<>>
        /\ results = <<>>

C3_Witness ==
    /\ fileKind = "no_embedder"
    /\ pc = "done"
    /\ HasMsg(output, "ERROR no embedder")

\* C4: in a finished run with a loaded entry in which no request ended in an
\* error other than unreachable host or timeout, no exception left a check and
\* the connection, embedding and context-window checks ran in that order.
C4_AllChecksRunWithoutRaising ==
    (pc = "done" /\ EntryLoaded /\ ~HasMsg(output, "Traceback ReadError")) =>
        /\ \A i \in 1..Len(output) :
              output[i].msg \notin {"Traceback AttributeError", "Traceback TypeError",
                                    "Traceback ValueError"}
        /\ Len(results) = 3
        /\ HasMsg(output, "test_1_connection")
        /\ HasMsg(output, "test_2_embedding")
        /\ HasMsg(output, "test_3_context_window")
        /\ Len(requests) = 3

\* ---- test_embedding on its own ----------------------------------------
InitEmbedding ==
    /\ pc = "fn_call"
    /\ fnInput \in EmbResponsesOver(MaxData, MaxVec)
    /\ fnResult = Ret("unset", <<>>)
    /\ requests = <<>>
    /\ output = <<>>
    /\ exitStatus = -1
    /\ server_ok = "unset"
    /\ model_ok = "unset"
    /\ inference_ok = "unset"
    /\ alias = ""
    /\ cfg = NoCfg
    /\ results = <<>>
    /\ fileKind = "unread"

call_test_embedding ==
    /\ pc = "fn_call"
    /\ fnResult' = test_embedding(fnInput)
    /\ pc' = "fn_done"
    /\ UNCHANGED <<requests, output, exitStatus, server_ok, model_ok, inference_ok,
                   alias, cfg, results, fileKind, fnInput>>

NextEmbedding == call_test_embedding

SpecEmbedding == InitEmbedding /\ [][NextEmbedding]_vars

Http200Json(r) == r.kind = "http" /\ r.status = 200 /\ r.body.shape # "not_json"

\* every element of data is an object holding a non-empty vector of numbers
RECURSIVE AllItemsNumeric(_)
AllItemsNumeric(data) ==
    \/ data = <<>>
    \/ /\ Head(data).shape = "dict"
       /\ Head(data).emb = "list"
       /\ Head(data).vec # <<>>
       /\ \A i \in 1..Len(Head(data).vec) : Head(data).vec[i] = "num"
       /\ AllItemsNumeric(Tail(data))

\* C7: on an HTTP 200 JSON response the embedding check passes only if data is
\* a non-empty list whose every element holds a non-empty all-numeric vector,
\* a pass reports the vector's length, and data: [] gives False.
C7_EmbeddingPassesOnlyOnValidData ==
    (pc = "fn_done" /\ Http200Json(fnInput)) =>
        /\ fnResult.ret = "True" =>
              /\ fnInput.body.shape = "dict"
              /\ fnInput.body.data = "list"
              /\ fnInput.body.list # <<>>
              /\ AllItemsNumeric(fnInput.body.list)
              /\ Contains(fnResult.out,
                          MsgCode("embedding_dimension", Len(fnInput.body.list[1].vec)))
        /\ (fnInput.body.shape = "dict" /\ fnInput.body.data = "list"
            /\ fnInput.body.list = <<>>) => fnResult.ret = "False"

\* ---- test_context_window on its own -----------------------------------
InitContext ==
    /\ pc = "fn_call"
    /\ fnInput \in CtxResponsesOver(InfoKeys, MaxInfo)
    /\ fnResult = Ret("unset", <<>>)
    /\ requests = <<>>
    /\ output = <<>>
    /\ exitStatus = -1
    /\ server_ok = "unset"
    /\ model_ok = "unset"
    /\ inference_ok = "unset"
    /\ alias = ""
    /\ cfg = NoCfg
    /\ results = <<>>
    /\ fileKind = "unread"

call_test_context_window ==
    /\ pc = "fn_call"
    /\ fnResult' = test_context_window(fnInput)
    /\ pc' = "fn_done"
    /\ UNCHANGED <<requests, output, exitStatus, server_ok, model_ok, inference_ok,
                   alias, cfg, results, fileKind, fnInput>>

NextContext == call_test_context_window

SpecContext == InitContext /\ [][NextContext]_vars

HasContextLengthKey(entries) ==
    \E i \in 1..Len(entries) : EndsWith(entries[i].key, CONTEXT_LENGTH_SUFFIX)

\* C8: on an HTTP 200 JSON object, the context-window check returns True and
\* prints the value of a key ending in ".context_length" when modelinfo is a
\* mapping with such a key, and returns False when modelinfo is absent, empty
\* or without such a key.
C8_ContextWindowResult ==
    (pc = "fn_done" /\ Http200Json(fnInput) /\ fnInput.body.shape = "dict"
     /\ fnInput.body.modelinfo \in {"dict", "absent"}) =>
        IF fnInput.body.modelinfo = "dict" /\ HasContextLengthKey(fnInput.body.entries)
        THEN /\ fnResult.ret = "True"
             /\ \E i \in 1..Len(fnInput.body.entries) :
                   /\ EndsWith(fnInput.body.entries[i].key, CONTEXT_LENGTH_SUFFIX)
                   /\ Contains(fnResult.out,
                               MsgCode("max_context_window", fnInput.body.entries[i].value.val))
        ELSE fnResult.ret = "False"
====
